---- MODULE Spec2Model ----
(***************************************************************************)
(* Model of the boogie-sever handlers: email verification (/code/email,    *)
(* /email), registration (/join, both variants), login (/login, both       *)
(* variants), token renewal (/refreshToken) and the profile routes, as     *)
(* state machines over the tables and the object storage.  Every store,    *)
(* mail or storage call is one atomic step; the code between two awaited   *)
(* calls runs with the step that precedes it.                              *)
(***************************************************************************)
EXTENDS Integers, Sequences, FiniteSets, Bags, TLC

VARIABLES
    auth,      \* table `auth`: bag of rows [email, auth_code, date, is_auth]
    user,      \* table `user`: bag of rows
    student,   \* table `student`: set of rows (never written by the handlers)
    now,       \* wall clock, in milliseconds
    proc,      \* per request slot: the handler's position and locals
    newest,    \* history: per email, the code of the latest-started /code/email
    used,      \* history: (email, code) pairs confirmed with 200, no row inserted for the email since
    profile,   \* table `user_profile`: bag of rows
    s3         \* object storage: set of keys that hold an object

vars == <<auth, user, student, now, proc, newest, used, profile, s3>>

----------------------------------------------------------------------------
(* Bounds *)

NProcs == 2          \* request slots that can be in flight at once
MaxAuth == 2         \* rows the auth table may hold
MaxUser == 2         \* rows the user table may hold

Procs == 1..NProcs

(* Input domains *)
ValidEmails == {"a@x.io", "b@x.io"}
OneEmail == {"a@x.io"}
BadIds == {"", "nomail"}
Codes == {"c1", "c2"}                \* values createCode(8) may return
Instants == {0, 299999, 300000}   \* clock readings (ms) the model samples

----------------------------------------------------------------------------
(* Pure helpers *)

\* utils.checkObjectValueEmpty: TRUE iff no value of the object is empty.
checkObjectValueEmpty(values) == \A i \in DOMAIN values : values[i] # ""

\* verifyEmail: the regular expression, tabulated on the identifiers the model uses.
verifyEmail(email) == email \in ValidEmails

\* getCurrentDate: dayjs().format('YYYY-MM-DD HH:mm:ss') drops the milliseconds;
\* a formatted date is represented by its number of whole seconds.
getCurrentDate(ms) == ms \div 1000

\* dayjs absFloor: truncation toward zero.
absFloor(n, d) == IF n < 0 THEN -((-n) \div d) ELSE n \div d

\* dayjs(a).diff(b, 'm') on second-resolution dates.
diffMinutes(a, b) == absFloor(a - b, 60)

checkValidAuthDate_GE(authDate, currentDate) == diffMinutes(authDate, currentDate) >= -5

checkValidAuthDate(authDate, currentDate) == diffMinutes(authDate, currentDate) > -5

----------------------------------------------------------------------------
(* Table helpers (bags of rows) *)

RECURSIVE SumOver(_, _)
SumOver(S, B) == IF S = {} THEN 0
                 ELSE LET r == CHOOSE x \in S : TRUE IN B[r] + SumOver(S \ {r}, B)

Rows(B) == BagToSet(B)

InsertRow(B, r) == B (+) SetToBag({r})

\* knex(t).delete().where(P)
DeleteWhere(B, P(_)) == [r \in {x \in Rows(B) : ~P(x)} |-> B[r]]

\* knex(t).update(f).where(P)
UpdateWhere(B, P(_), f(_)) ==
    LET img(r) == IF P(r) THEN f(r) ELSE r
        tgt == {img(r) : r \in Rows(B)}
    IN [t \in tgt |-> SumOver({r \in Rows(B) : img(r) = t}, B)]

\* number of rows satisfying P
CountWhere(B, P(_)) == SumOver({r \in Rows(B) : P(r)}, B)

----------------------------------------------------------------------------
(* Responses; the messages are rendered in English *)

Res(status, message) == [status |-> status, message |-> message]
NoRes == Res(0, "")
Idle == [op |-> "idle", pc |-> "idle", res |-> NoRes]
ServerError == Res(500, "server request failed")

Quiet == \A q \in Procs : proc[q].op = "idle"

InFlightInserts == Cardinality({q \in Procs : proc[q].op = "code" /\ proc[q].pc # "done"})

----------------------------------------------------------------------------
(* POST /code/email *)

CodeStart(p, id, cap) ==
    /\ proc[p].op = "idle"
    /\ BagCardinality(auth) + InFlightInserts < cap
    /\ IF ~checkObjectValueEmpty(<<id>>)
       THEN /\ proc' = [proc EXCEPT ![p] = [op |-> "code", pc |-> "done", id |-> id,
                                            mail |-> "none", ins |-> "none",
                                            res |-> Res(400, "invalid request")]]
            /\ UNCHANGED newest
       ELSE IF ~verifyEmail(id)
       THEN /\ proc' = [proc EXCEPT ![p] = [op |-> "code", pc |-> "done", id |-> id,
                                            mail |-> "none", ins |-> "none",
                                            res |-> Res(403, "invalid id format")]]
            /\ UNCHANGED newest
       ELSE \E c \in Codes :
            /\ proc' = [proc EXCEPT ![p] = [op |-> "code", pc |-> "delete", id |-> id,
                                            authCode |-> c,
                                            currentDate |-> getCurrentDate(now),
                                            mail |-> "none", ins |-> "none",
                                            res |-> NoRes]]
            /\ newest' = [newest EXCEPT ![id] = [code |-> c, by |-> p, ok |-> FALSE,
                                                 n |-> IF @.n < 2 THEN @.n + 1 ELSE 2]]
    /\ UNCHANGED <<auth, user, student, profile, s3, now, used>>

AllSettled_Either(pr) ==
    LET r == IF pr.res # NoRes THEN pr.res
             ELSE IF pr.mail = "ok" \/ pr.ins = "ok" THEN Res(201, "isSend")
             ELSE IF pr.mail = "fail" /\ pr.ins = "fail" THEN ServerError
             ELSE NoRes
        done == pr.mail # "pending" /\ pr.ins # "pending"
    IN [pr EXCEPT !.res = r, !.pc = IF done THEN "done" ELSE "all"]

\* Promise.all([sendMail, insert]).then(201).catch(500): the first rejection answers
\* 500 at once, the other call still runs; 201 needs both fulfilled.
AllSettled(pr) ==
    LET r == IF pr.res # NoRes THEN pr.res
             ELSE IF pr.mail = "fail" \/ pr.ins = "fail" THEN ServerError
             ELSE IF pr.mail = "ok" /\ pr.ins = "ok" THEN Res(201, "isSend")
             ELSE NoRes
        done == pr.mail # "pending" /\ pr.ins # "pending"
    IN [pr EXCEPT !.res = r, !.pc = IF done THEN "done" ELSE "all"]

\* history: the latest-started request for this email has ended, with 201 or not
NoteEnd(p, pr) ==
    IF pr.pc = "done" /\ newest[pr.id].by = p
    THEN [newest EXCEPT ![pr.id] = [@ EXCEPT !.by = 0, !.ok = pr.res.status = 201]]
    ELSE newest

CodeDeleteRows_None(B, id) == B

CodeDeleteRows(B, id) == DeleteWhere(B, LAMBDA r : r.email = id /\ r.is_auth = 0)

CodeDelete(p) ==
    /\ proc[p].op = "code" /\ proc[p].pc = "delete"
    /\ \/ /\ auth' = CodeDeleteRows(auth, proc[p].id)
          /\ proc' = [proc EXCEPT ![p].pc = "all", ![p].mail = "pending", ![p].ins = "pending"]
          /\ UNCHANGED newest
       \/ /\ LET pr == [proc[p] EXCEPT !.pc = "done", !.res = ServerError]
             IN proc' = [proc EXCEPT ![p] = pr] /\ newest' = NoteEnd(p, pr)
          /\ UNCHANGED auth
    /\ UNCHANGED <<user, student, profile, s3, now, used>>

CodeSendMail(p) ==
    /\ proc[p].op = "code" /\ proc[p].pc = "all" /\ proc[p].mail = "pending"
    /\ \E out \in {"ok", "fail"} :
          LET pr == AllSettled([proc[p] EXCEPT !.mail = out])
          IN proc' = [proc EXCEPT ![p] = pr] /\ newest' = NoteEnd(p, pr)
    /\ UNCHANGED <<auth, user, student, profile, s3, now, used>>

CodeInsert(p) ==
    /\ proc[p].op = "code" /\ proc[p].pc = "all" /\ proc[p].ins = "pending"
    /\ \/ /\ auth' = InsertRow(auth, [email |-> proc[p].id, auth_code |-> proc[p].authCode,
                                      date |-> proc[p].currentDate, is_auth |-> 0])
          /\ used' = {u \in used : u[1] # proc[p].id}
          /\ LET pr == AllSettled([proc[p] EXCEPT !.ins = "ok"])
             IN proc' = [proc EXCEPT ![p] = pr] /\ newest' = NoteEnd(p, pr)
       \/ /\ LET pr == AllSettled([proc[p] EXCEPT !.ins = "fail"])
             IN proc' = [proc EXCEPT ![p] = pr] /\ newest' = NoteEnd(p, pr)
          /\ UNCHANGED <<auth, used>>
    /\ UNCHANGED <<user, student, profile, s3, now>>

----------------------------------------------------------------------------
(* POST /email *)

EmailStart(p, id, code) ==
    /\ proc[p].op = "idle"
    /\ IF ~checkObjectValueEmpty(<<id, code>>)
       THEN proc' = [proc EXCEPT ![p] = [op |-> "email", pc |-> "done", id |-> id, code |-> code,
                                         res |-> Res(400, "invalid request")]]
       ELSE proc' = [proc EXCEPT ![p] = [op |-> "email", pc |-> "select", id |-> id, code |-> code,
                                         currentDate |-> getCurrentDate(now), res |-> NoRes]]
    /\ UNCHANGED <<auth, user, student, profile, s3, now, newest, used>>

InvalidCode == Res(409, "wrong code")
ExpiredCode == Res(409, "code expired")

EmailMatches_Any(B, id, code) == {r \in Rows(B) : r.email = id /\ r.auth_code = code}

\* .where({ email: id, auth_code: code, is_auth: 0 })
EmailMatches(B, id, code) ==
    {r \in Rows(B) : r.email = id /\ r.auth_code = code /\ r.is_auth = 0}

EmailSelect_DropExpired(p) ==
    /\ proc[p].op = "email" /\ proc[p].pc = "select"
    /\ \/ proc' = [proc EXCEPT ![p].pc = "done", ![p].res = ServerError] /\ UNCHANGED auth
       \/ /\ EmailMatches(auth, proc[p].id, proc[p].code) = {}
          /\ proc' = [proc EXCEPT ![p].pc = "done", ![p].res = InvalidCode]
          /\ UNCHANGED auth
       \/ \E authInfo \in EmailMatches(auth, proc[p].id, proc[p].code) :
             IF ~checkValidAuthDate(authInfo.date, proc[p].currentDate)
             THEN /\ proc' = [proc EXCEPT ![p].pc = "done", ![p].res = ExpiredCode]
                  /\ auth' = DeleteWhere(auth, LAMBDA r : r = authInfo)
             ELSE proc' = [proc EXCEPT ![p].pc = "update"] /\ UNCHANGED auth
    /\ UNCHANGED <<user, student, profile, s3, now, newest, used>>

EmailSelect(p) ==
    /\ proc[p].op = "email" /\ proc[p].pc = "select"
    /\ \/ proc' = [proc EXCEPT ![p].pc = "done", ![p].res = ServerError]
       \/ /\ EmailMatches(auth, proc[p].id, proc[p].code) = {}
          /\ proc' = [proc EXCEPT ![p].pc = "done", ![p].res = InvalidCode]
       \/ \E authInfo \in EmailMatches(auth, proc[p].id, proc[p].code) :   \* .first()
             IF ~checkValidAuthDate(authInfo.date, proc[p].currentDate)
             THEN proc' = [proc EXCEPT ![p].pc = "done", ![p].res = ExpiredCode]
             ELSE proc' = [proc EXCEPT ![p].pc = "update"]
    /\ UNCHANGED <<auth, user, student, profile, s3, now, newest, used>>

EmailUpdateRows_Toggle(B, id, code, date) ==
    UpdateWhere(B, LAMBDA r : r.email = id /\ r.auth_code = code,
                   LAMBDA r : [r EXCEPT !.is_auth = 1 - @, !.date = date])

\* .update({ is_auth: 1, date: currentDate }).where({ email: id, auth_code: code })
EmailUpdateRows(B, id, code, date) ==
    UpdateWhere(B, LAMBDA r : r.email = id /\ r.auth_code = code,
                   LAMBDA r : [r EXCEPT !.is_auth = 1, !.date = date])

EmailUpdate(p) ==
    /\ proc[p].op = "email" /\ proc[p].pc = "update"
    /\ \/ /\ proc' = [proc EXCEPT ![p].pc = "done", ![p].res = ServerError]
          /\ UNCHANGED <<auth, used>>
       \/ /\ auth' = EmailUpdateRows(auth, proc[p].id, proc[p].code, proc[p].currentDate)
          /\ proc' = [proc EXCEPT ![p].pc = "done", ![p].res = Res(200, "isAuth")]
          /\ used' = used \cup {<<proc[p].id, proc[p].code>>}
    /\ UNCHANGED <<user, student, profile, s3, now, newest>>

----------------------------------------------------------------------------
(* POST /join *)

YearNow == 2023      \* Number(dayjs().format('YYYY'))

\* Number(birthday.substring(from, to)) on a string of decimal digits
RECURSIVE DigitsToNumber(_)
DigitsToNumber(ds) ==
    IF ds = <<>> THEN 0 ELSE 10 * DigitsToNumber(SubSeq(ds, 1, Len(ds) - 1)) + ds[Len(ds)]

Substring(ds, from, to) ==
    SubSeq(ds, from + 1, IF to < Len(ds) THEN to ELSE Len(ds))

isLeapYear_Div4(year) == year % 4 = 0

\* dayjs(birthday).isLeapYear(): day 29 of February rolls over to 1 March of the same year
isLeapYear(year) == (year % 4 = 0 /\ year % 100 # 0) \/ year % 400 = 0

\* isVaildBirthday of the first variant, on strings of decimal digits
isVaildBirthday(birthday) ==
    LET year == DigitsToNumber(Substring(birthday, 0, 4))
        month == DigitsToNumber(Substring(birthday, 4, 6))
        day == DigitsToNumber(Substring(birthday, 6, 8))
    IN IF Len(birthday) = 8
       THEN IF 1900 > year \/ year > YearNow THEN FALSE
            ELSE IF month < 1 \/ month > 12 THEN FALSE
            ELSE IF day < 1 \/ day > 31 THEN FALSE
            ELSE IF month \in {4, 6, 9, 11} /\ day = 31 THEN FALSE
            ELSE IF month = 2
                 THEN IF day > 29 \/ (day = 29 /\ ~isLeapYear(year)) THEN FALSE ELSE TRUE
            ELSE TRUE
       ELSE FALSE

\* crypto.createHash('sha256').update(str).digest('base64')
encryptString(str) == <<"sha256", str>>

NoRow == [id |-> "", nickname |-> ""]          \* .first() found nothing
Pending == [id |-> "?", nickname |-> "?"]      \* the query has not returned yet

JoinDone(body, op, res) ==
    [op |-> op, pc |-> "done", id |-> body.id, nickname |-> body.nickname,
     password |-> body.password, verifyPassword |-> body.verifyPassword,
     isStudent |-> body.isStudent, uniID |-> body.uniID, name |-> body.name,
     birthday |-> body.birthday, user |-> Pending, student |-> "skip",
     existing |-> "skip", res |-> res]

\* first variant: validation, then the two or three lookups are issued together
Join1Start(p, body) ==
    /\ proc[p].op = "idle"
    /\ proc' = [proc EXCEPT ![p] =
          IF ~checkObjectValueEmpty(<<body.id, body.nickname, body.password, body.verifyPassword>>)
          THEN JoinDone(body, "join1", Res(400, "invalid request"))
          ELSE IF body.password # body.verifyPassword
          THEN JoinDone(body, "join1", Res(400, "password mismatch"))
          ELSE IF body.isStudent
                  /\ ~(checkObjectValueEmpty(<<body.uniID, body.name>>) /\ body.birthday # <<>>)
          THEN JoinDone(body, "join1", Res(400, "invalid request"))
          ELSE IF body.isStudent /\ isVaildBirthday(body.birthday)
          THEN JoinDone(body, "join1", Res(400, "invalid birthday"))
          ELSE [JoinDone(body, "join1", NoRes) EXCEPT
                   !.pc = "lookup",
                   !.student = IF body.isStudent THEN "pending" ELSE "skip",
                   !.existing = IF body.isStudent THEN "pending" ELSE "skip"]]
    /\ UNCHANGED <<auth, user, student, profile, s3, now, newest, used>>

\* second variant: no tier fields
Join2Start(p, body) ==
    /\ proc[p].op = "idle"
    /\ body.isStudent = FALSE /\ body.uniID = "" /\ body.name = "" /\ body.birthday = <<>>
    /\ proc' = [proc EXCEPT ![p] =
          IF ~checkObjectValueEmpty(<<body.id, body.nickname, body.password, body.verifyPassword>>)
          THEN JoinDone(body, "join2", Res(400, "invalid request"))
          ELSE IF body.password # body.verifyPassword
          THEN JoinDone(body, "join2", Res(400, "password mismatch"))
          ELSE [JoinDone(body, "join2", NoRes) EXCEPT !.pc = "lookup"]]
    /\ UNCHANGED <<auth, user, student, profile, s3, now, newest, used>>

AccountExists == Res(409, "account already exists")
DuplicateId == Res(409, "duplicate id")
DuplicateNickname == Res(409, "duplicate nickname")
Forbidden == Res(403, "unregistered student")

\* .select('id', 'nickname').where({ id }).orWhere({ nickname })
JoinMatches(B, id, nickname) ==
    {[id |-> u.id, nickname |-> u.nickname] :
        u \in {x \in Rows(B) : x.id = id \/ x.nickname = nickname}}

\* knex('student') ... .where({ uni_id, name, birthday }).first()
StudentFound(pr) ==
    \E st \in student :
        st.uni_id = pr.uniID /\ st.name = pr.name /\ st.birthday = pr.birthday

\* knex('user').select('id').where({ uni_id, name, birthday }).first()
ExistingFound(B, pr) ==
    \E u \in Rows(B) :
        u.uni_id = pr.uniID /\ u.name = pr.name /\ u.birthday = pr.birthday

JoinDecide_ForbiddenFirst(pr) ==
    IF pr.isStudent /\ pr.student = "none"
    THEN [pr EXCEPT !.pc = "done", !.res = Forbidden]
    ELSE IF pr.isStudent /\ pr.existing = "found"
    THEN [pr EXCEPT !.pc = "done", !.res = AccountExists]
    ELSE IF pr.user # NoRow /\ pr.user.id = pr.id
    THEN [pr EXCEPT !.pc = "done", !.res = DuplicateId]
    ELSE IF pr.user # NoRow /\ pr.user.nickname = pr.nickname
    THEN [pr EXCEPT !.pc = "done", !.res = DuplicateNickname]
    ELSE [pr EXCEPT !.pc = "insert"]

\* the .then of Promise.all: runs once every lookup has returned
JoinDecide(pr) ==
    IF pr.isStudent /\ pr.existing = "found"
    THEN [pr EXCEPT !.pc = "done", !.res = AccountExists]
    ELSE IF pr.user # NoRow /\ pr.user.id = pr.id
    THEN [pr EXCEPT !.pc = "done", !.res = DuplicateId]
    ELSE IF pr.user # NoRow /\ pr.user.nickname = pr.nickname
    THEN [pr EXCEPT !.pc = "done", !.res = DuplicateNickname]
    ELSE IF pr.isStudent /\ pr.student = "none"
    THEN [pr EXCEPT !.pc = "done", !.res = Forbidden]
    ELSE [pr EXCEPT !.pc = "insert"]

Returned(pr) ==
    IF pr.user # Pending /\ pr.student # "pending" /\ pr.existing # "pending"
    THEN JoinDecide(pr) ELSE pr

JoinSelectUser(p) ==
    /\ proc[p].op \in {"join1", "join2"} /\ proc[p].pc = "lookup" /\ proc[p].user = Pending
    /\ \/ proc' = [proc EXCEPT ![p].pc = "done", ![p].res = ServerError]
       \/ LET m == JoinMatches(user, proc[p].id, proc[p].nickname)
          IN \E row \in (IF m = {} THEN {NoRow} ELSE m) :      \* .first()
                proc' = [proc EXCEPT ![p] = Returned([proc[p] EXCEPT !.user = row])]
    /\ UNCHANGED <<auth, user, student, profile, s3, now, newest, used>>

JoinSelectStudent(p) ==
    /\ proc[p].op = "join1" /\ proc[p].pc = "lookup" /\ proc[p].student = "pending"
    /\ \/ proc' = [proc EXCEPT ![p].pc = "done", ![p].res = ServerError]
       \/ LET found == IF StudentFound(proc[p]) THEN "found" ELSE "none"
          IN proc' = [proc EXCEPT ![p] = Returned([proc[p] EXCEPT !.student = found])]
    /\ UNCHANGED <<auth, user, student, profile, s3, now, newest, used>>

JoinSelectExisting(p) ==
    /\ proc[p].op = "join1" /\ proc[p].pc = "lookup" /\ proc[p].existing = "pending"
    /\ \/ proc' = [proc EXCEPT ![p].pc = "done", ![p].res = ServerError]
       \/ LET found == IF ExistingFound(user, proc[p]) THEN "found" ELSE "none"
          IN proc' = [proc EXCEPT ![p] = Returned([proc[p] EXCEPT !.existing = found])]
    /\ UNCHANGED <<auth, user, student, profile, s3, now, newest, used>>

\* the inserted row; columns the request does not give keep their default
JoinRow(pr) ==
    [id |-> pr.id, nickname |-> pr.nickname, password |-> encryptString(pr.password),
     is_student |-> IF pr.isStudent THEN 1 ELSE 0,
     uni_id |-> pr.uniID, name |-> pr.name, birthday |-> pr.birthday]

JoinInsert(p) ==
    /\ proc[p].op \in {"join1", "join2"} /\ proc[p].pc = "insert"
    /\ \/ /\ proc' = [proc EXCEPT ![p].pc = "done", ![p].res = ServerError]
          /\ UNCHANGED user
       \/ /\ BagCardinality(user) < MaxUser          \* a full table refuses the row
          /\ user' = InsertRow(user, JoinRow(proc[p]))
          /\ proc' = [proc EXCEPT ![p].pc = "done", ![p].res = Res(201, "isJoin")]
    /\ UNCHANGED <<auth, student, profile, s3, now, newest, used>>

----------------------------------------------------------------------------
(* POST /login, POST /refreshToken *)

\* token library: the claims a minted token carries
generatedJwtToken(email, sub, expiresIn) == [email |-> email, sub |-> sub, expiresIn |-> expiresIn]

\* s3Controller.getObjectURL
getObjectURL(key) == <<"url", key>>

InvalidCredentials == Res(400, "wrong id or password")

\* is_admin: no handler writes the column, every account holds its default
isAdminOf(u) == FALSE

LoginDone(op, id, password, res) ==
    [op |-> op, pc |-> "done", id |-> id, password |-> password, idKnown |-> FALSE,
     fault |-> FALSE, imageKey |-> "", nickname |-> "", tokens |-> <<>>, res |-> res]

\* first variant: the id must have the shape of an email
Login1Start(p, id, password) ==
    /\ proc[p].op = "idle"
    /\ proc' = [proc EXCEPT ![p] =
          IF ~checkObjectValueEmpty(<<id, password>>)
          THEN LoginDone("login1", id, password, Res(400, "invalid request"))
          ELSE IF ~verifyEmail(id)
          THEN LoginDone("login1", id, password, Res(403, "invalid id format"))
          ELSE [LoginDone("login1", id, password, NoRes) EXCEPT !.pc = "lookup"]]
    /\ UNCHANGED <<auth, user, student, profile, s3, now, newest, used>>

Login2Start(p, id, password) ==
    /\ proc[p].op = "idle"
    /\ proc' = [proc EXCEPT ![p] =
          IF ~checkObjectValueEmpty(<<id, password>>)
          THEN LoginDone("login2", id, password, Res(400, "invalid request"))
          ELSE [LoginDone("login2", id, password, NoRes) EXCEPT !.pc = "lookup"]]
    /\ UNCHANGED <<auth, user, student, profile, s3, now, newest, used>>

LoginMatches_IdOnly(U, P, op, id, password) ==
    {[nickname |-> u.nickname, profileImageKey |-> ""] : u \in {x \in Rows(U) : x.id = id}}

\* .where({ id, password: encryptString(password) }), left-joined with user_profile
\* in the second variant
LoginMatches(U, P, op, id, password) ==
    LET us == {u \in Rows(U) : u.id = id /\ u.password = encryptString(password)}
        keys(u) == IF op = "login2" /\ \E r \in Rows(P) : r.user_id = u.id
                   THEN {r.image : r \in {x \in Rows(P) : x.user_id = u.id}}
                   ELSE {""}
    IN UNION {{[nickname |-> u.nickname, profileImageKey |-> k] : k \in keys(u)} : u \in us}

\* the two tokens and the 200 response; profileImage is the set of resolved URLs
\* (empty or one), and the response has the field only when there is one
LoginIssue(pr, profileImage) ==
    LET refreshToken == generatedJwtToken(pr.id, "refresh", "24h")
        accessToken == generatedJwtToken(pr.id, "access", "5m")
        base == [refreshToken |-> refreshToken, accessToken |-> accessToken,
                 email |-> pr.id, nickname |-> pr.nickname, isAdmin |-> isAdminOf(pr)]
        data == IF profileImage = {} THEN base
                ELSE base @@ ("profileImage" :> CHOOSE url \in profileImage : TRUE)
    IN [pr EXCEPT !.pc = "done", !.tokens = <<refreshToken, accessToken>>,
                  !.res = [status |-> 200, message |-> "", data |-> data]]

LoginRefuse_Tell(pr, known) ==
    [pr EXCEPT !.pc = "done", !.idKnown = known,
               !.res = IF known THEN Res(400, "wrong password") ELSE InvalidCredentials]

\* no row: the same rejection whether or not an account has the id
\* (idKnown is history, the handler does not learn it)
LoginRefuse(pr, known) ==
    [pr EXCEPT !.pc = "done", !.idKnown = known, !.res = InvalidCredentials]

LoginSelect(p) ==
    /\ proc[p].op \in {"login1", "login2"} /\ proc[p].pc = "lookup"
    /\ LET known == \E u \in Rows(user) : u.id = proc[p].id
           m == LoginMatches(user, profile, proc[p].op, proc[p].id, proc[p].password)
       IN \/ proc' = [proc EXCEPT ![p].pc = "done", ![p].fault = TRUE, ![p].res = ServerError]
          \/ /\ m = {}
             /\ proc' = [proc EXCEPT ![p] = LoginRefuse(proc[p], known)]
          \/ \E row \in m :                                    \* .first()
                LET pr == [proc[p] EXCEPT !.idKnown = known, !.nickname = row.nickname,
                                          !.imageKey = row.profileImageKey]
                IN proc' = [proc EXCEPT ![p] =
                       IF row.profileImageKey # ""
                       THEN [pr EXCEPT !.pc = "image"]
                       ELSE LoginIssue(pr, {})]
    /\ UNCHANGED <<auth, user, student, profile, s3, now, newest, used>>

\* await s3Controller.getObjectURL(profileImageKey)
LoginImage(p) ==
    /\ proc[p].op = "login2" /\ proc[p].pc = "image"
    /\ \/ proc' = [proc EXCEPT ![p].pc = "done", ![p].fault = TRUE, ![p].res = ServerError]
       \/ proc' = [proc EXCEPT ![p] = LoginIssue(proc[p], {getObjectURL(proc[p].imageKey)})]
    /\ UNCHANGED <<auth, user, student, profile, s3, now, newest, used>>

AccountNotFound == Res(404, "not a member")

\* verifyRefreshToken has accepted the presented token; res.locals.email is its subject
RefreshStart(p, presented) ==
    /\ proc[p].op = "idle"
    /\ presented.sub = "refresh"
    /\ proc' = [proc EXCEPT ![p] =
          [op |-> "refresh", pc |-> "lookup", email |-> presented.email,
           presented |-> presented, fault |-> FALSE, tokens |-> <<>>, res |-> NoRes]]
    /\ UNCHANGED <<auth, user, student, profile, s3, now, newest, used>>

RefreshIssue_Both(pr, row) ==
    LET accessToken == generatedJwtToken(pr.email, "access", "5m")
        refreshToken == generatedJwtToken(pr.email, "refresh", "24h")
    IN [pr EXCEPT !.pc = "done", !.tokens = <<accessToken, refreshToken>>,
                  !.res = [status |-> 200, message |-> "",
                           data |-> [accessToken |-> accessToken, nickname |-> row.nickname,
                                     email |-> row.id, isAdmin |-> isAdminOf(row)]]]

RefreshIssue(pr, row) ==
    LET accessToken == generatedJwtToken(pr.email, "access", "5m")
    IN [pr EXCEPT !.pc = "done", !.tokens = <<accessToken>>,
                  !.res = [status |-> 200, message |-> "",
                           data |-> [accessToken |-> accessToken, nickname |-> row.nickname,
                                     email |-> row.id, isAdmin |-> isAdminOf(row)]]]

\* the lookup and everything after it run inside one try; a rejected query and the
\* destructuring of no row both land in the catch, which answers 404
\* (the floating Promise.reject() for a row with an empty id changes nothing)
RefreshSelect(p) ==
    /\ proc[p].op = "refresh" /\ proc[p].pc = "lookup"
    /\ LET m == {u \in Rows(user) : u.id = proc[p].email}
       IN \/ proc' = [proc EXCEPT ![p].pc = "done", ![p].fault = TRUE,
                                  ![p].res = AccountNotFound]
          \/ /\ m = {}
             /\ proc' = [proc EXCEPT ![p].pc = "done", ![p].res = AccountNotFound]
          \/ \E row \in m :                                    \* .first()
                proc' = [proc EXCEPT ![p] = RefreshIssue(proc[p], row)]
    /\ UNCHANGED <<auth, user, student, profile, s3, now, newest, used>>

----------------------------------------------------------------------------
(* profile: GET /, PUT /, PATCH /open *)

(* user_profile rows *)
NoJson == [set |-> FALSE, val |-> <<>>]             \* a null column
Json(v) == [set |-> TRUE, val |-> v]               \* JSON text of the array v
NoText == [name |-> "", length |-> 0]              \* a null or empty string
ProfileRow(user_id, isOpen, image) ==
    [user_id |-> user_id, is_open_information |-> isOpen, image |-> image,
     positions |-> NoJson, technologies |-> NoJson, introduction |-> NoText,
     awards |-> NoJson, links |-> NoJson]


\* lookup tables job_category and technology (never written by the handlers)
JobCategory == {[id |-> 1, name |-> "backend"], [id |-> 2, name |-> "frontend"]}
Technology == {[id |-> i, name |-> "tech"] : i \in 1..5}

\* knex(t).select('*').whereIn('id', ids)
WhereIn(T, ids) == {r \in T : \E i \in DOMAIN ids : ids[i] = r.id}

MathRound_Floor(num, den) == num \div den

\* Math.round(num / den) for num >= 0, den > 0
MathRound(num, den) == (2 * num + den) \div (2 * den)

Has(info, k) == k \in DOMAIN info

\* calculateProfileScore
calculateProfileScore(optionalInfo) ==
    LET introduction == IF Has(optionalInfo, "introduction")
                        THEN optionalInfo.introduction.length ELSE 0
        technologies == IF Has(optionalInfo, "technologies")
                        THEN Cardinality(optionalInfo.technologies) ELSE 0
        positions == IF Has(optionalInfo, "positions")
                     THEN Cardinality(optionalInfo.positions) ELSE 0
        awards == IF Has(optionalInfo, "awards") THEN Len(optionalInfo.awards) ELSE 0
        links == IF Has(optionalInfo, "links") THEN Len(optionalInfo.links) ELSE 0
        introductionScore ==
            IF introduction # 0
            THEN LET s1 == IF introduction >= 100 THEN 1 ELSE 0
                     s2 == IF introduction >= 200 THEN s1 + 1 ELSE s1
                 IN IF introduction >= 300 THEN s2 + 2 ELSE s2
            ELSE 0
        technologyScore ==
            IF technologies # 0
            THEN LET s1 == 1
                     s2 == IF technologies >= 2 THEN s1 + 1 ELSE s1
                 IN IF technologies >= 5 THEN s2 + 2 ELSE s2
            ELSE 0
        positionScore == IF positions # 0 THEN 1 ELSE 0
        awardsScore == IF awards = 0 THEN 0 ELSE IF awards >= 2 THEN 2 ELSE 1
        linksScore == IF links = 0 THEN 0 ELSE IF links >= 2 THEN 2 ELSE 1
        rawScore == technologyScore + introductionScore + positionScore
                    + awardsScore + linksScore
    IN MathRound(rawScore * 100, 13)

EmptyInfo == [k \in {} |-> 0]

\* the optional fields read straight from the row: awards, links, introduction
RowInfo(row) ==
    (IF row.awards.set THEN "awards" :> row.awards.val ELSE EmptyInfo)
    @@ (IF row.links.set THEN "links" :> row.links.val ELSE EmptyInfo)
    @@ (IF row.introduction.length # 0 THEN "introduction" :> row.introduction ELSE EmptyInfo)

BaseInfo(pr) ==
    [isOpen |-> pr.row.isOpen, isMe |-> pr.id = pr.requester,
     nickname |-> pr.row.nickname, id |-> pr.row.userId]

Ok200(data) == [status |-> 200, message |-> "", data |-> data]
NullData == [isNull |-> TRUE]
NotFound == Res(404, "resource not found")

\* getProfileInfo threw: the caller's catch
ProfileThrow(pr) ==
    [pr EXCEPT !.pc = "done", !.fault = TRUE,
               !.res = IF pr.op = "fetch" THEN Res(500, "server request failed.")
                       ELSE Res(500, "server request fail")]

\* getProfileInfo returned null
ProfileNull(pr) ==
    [pr EXCEPT !.pc = "done",
               !.res = IF pr.op = "fetch" THEN NotFound ELSE Ok200(NullData)]

Withheld_Never(isMe, isOpen) == FALSE

\* if (!isMe && !isOpen) return baseInfo
Withheld(isMe, isOpen) == ~isMe /\ ~isOpen

\* the remaining awaits of getProfileInfo, in order, and its return
ProfileContinue(pr, after) ==
    IF after = "profile" /\ pr.row.positions.set
    THEN [pr EXCEPT !.pc = "positions"]
    ELSE IF after \in {"profile", "positions"} /\ pr.row.technologies.set
    THEN [pr EXCEPT !.pc = "technologies"]
    ELSE IF after \in {"profile", "positions", "technologies"} /\ pr.row.image # ""
    THEN [pr EXCEPT !.pc = "image"]
    ELSE [pr EXCEPT !.pc = "done",
                    !.res = Ok200([profileInfo |-> BaseInfo(pr) @@ pr.info,
                                   profileScore |-> calculateProfileScore(pr.info)])]

InProfile(pr, pc) == pr.op \in {"fetch", "update"} /\ pr.pc = pc

\* user_profile inner-joined with user, .where({ user_id: id }).first()
ProfileMatches(P, U, id) ==
    {[isOpen |-> r.is_open_information, nickname |-> u.nickname, userId |-> r.user_id,
      image |-> r.image, positions |-> r.positions, technologies |-> r.technologies,
      introduction |-> r.introduction, awards |-> r.awards, links |-> r.links] :
        r \in {x \in Rows(P) : x.user_id = id}, u \in {y \in Rows(U) : y.id = id}}

ProfileSelect(p) ==
    /\ InProfile(proc[p], "profile")
    /\ LET m == ProfileMatches(profile, user, proc[p].id)
       IN \/ proc' = [proc EXCEPT ![p] = ProfileThrow(proc[p])]
          \/ /\ m = {}
             /\ proc' = [proc EXCEPT ![p] = ProfileNull(proc[p])]
          \/ \E row \in m :                                    \* .first()
                LET pr == [proc[p] EXCEPT !.row = row, !.found = TRUE]
                IN proc' = [proc EXCEPT ![p] =
                       IF Withheld(pr.id = pr.requester, row.isOpen)
                       THEN [pr EXCEPT !.pc = "done", !.res = Ok200(BaseInfo(pr))]
                       ELSE ProfileContinue([pr EXCEPT !.info = RowInfo(row)], "profile")]
    /\ UNCHANGED <<auth, user, student, profile, s3, now, newest, used>>

ProfilePositions(p) ==
    /\ InProfile(proc[p], "positions")
    /\ \/ proc' = [proc EXCEPT ![p] = ProfileThrow(proc[p])]
       \/ LET positionsInfo == WhereIn(JobCategory, proc[p].row.positions.val)
          IN proc' = [proc EXCEPT ![p] =
                 ProfileContinue([proc[p] EXCEPT !.info = ("positions" :> positionsInfo) @@ @],
                                 "positions")]
    /\ UNCHANGED <<auth, user, student, profile, s3, now, newest, used>>

ProfileTechnologies(p) ==
    /\ InProfile(proc[p], "technologies")
    /\ \/ proc' = [proc EXCEPT ![p] = ProfileThrow(proc[p])]
       \/ LET technologiesInfo == WhereIn(Technology, proc[p].row.technologies.val)
          IN proc' = [proc EXCEPT ![p] =
                 ProfileContinue([proc[p] EXCEPT !.info = ("technologies" :> technologiesInfo) @@ @],
                                 "technologies")]
    /\ UNCHANGED <<auth, user, student, profile, s3, now, newest, used>>

ProfileImage(p) ==
    /\ InProfile(proc[p], "image")
    /\ \/ proc' = [proc EXCEPT ![p] = ProfileThrow(proc[p])]
       \/ proc' = [proc EXCEPT ![p] =
              ProfileContinue([proc[p] EXCEPT !.info = ("image" :> getObjectURL(proc[p].row.image)) @@ @],
                              "image")]
    /\ UNCHANGED <<auth, user, student, profile, s3, now, newest, used>>

NoProfile == [isOpen |-> FALSE, nickname |-> "", userId |-> "", image |-> "",
              positions |-> NoJson, technologies |-> NoJson, introduction |-> NoText,
              awards |-> NoJson, links |-> NoJson]

NoBody == [positions |-> NoJson, technologies |-> NoJson, introduction |-> NoText,
           awards |-> NoJson, links |-> NoJson]

\* GET /: getUserEmail has set res.locals.email (empty for an anonymous requester)
FetchStart(p, requester, id) ==
    /\ proc[p].op = "idle"
    /\ LET pr == [op |-> "fetch", pc |-> "profile", id |-> id, requester |-> requester,
                  row |-> NoProfile, found |-> FALSE, info |-> EmptyInfo, fault |-> FALSE,
                  res |-> NoRes]
       IN proc' = [proc EXCEPT ![p] =
              IF id = "" THEN [pr EXCEPT !.pc = "done", !.res = Res(400, "invalid request")]
              ELSE pr]
    /\ UNCHANGED <<auth, user, student, profile, s3, now, newest, used>>

\* parsedAwards.sort by awardedAt (a stable insertion sort)
RECURSIVE SortAwards(_)
SortAwards(awards) ==
    IF Len(awards) <= 1 THEN awards
    ELSE LET rest == SortAwards(SubSeq(awards, 1, Len(awards) - 1))
             x == awards[Len(awards)]
             k == Cardinality({i \in DOMAIN rest : rest[i].awardedAt <= x.awardedAt})
         IN SubSeq(rest, 1, k) \o <<x>> \o SubSeq(rest, k + 1, Len(rest))

\* data.Key of s3Controller.uploadFile(buffer, `profile/${id}/${originalname}`)
UploadKey(id, originalname) ==
    IF id = "a@x.io" /\ originalname = "f1" THEN "profile/a@x.io/f1"
    ELSE IF id = "b@x.io" /\ originalname = "f1" THEN "profile/b@x.io/f1"
    ELSE "profile/other"

\* a text JSON.parse (or the sort of what it returns) throws on
BadJson == [set |-> TRUE, val |-> <<>>, bad |-> TRUE]
Throws(j) == "bad" \in DOMAIN j

\* PUT /: verifyAccessToken has set res.locals.email; image is the uploaded file
\* ("buffer"), a string of the body ("string") or absent ("null").  The awards are
\* parsed and sorted outside every try block: what that throws rejects the promise
\* of the async handler (pc "thrown").
UpdateStart(p, id, body, image) ==
    /\ proc[p].op = "idle"
    /\ proc' = [proc EXCEPT ![p] =
          [op |-> "update", pc |-> IF Throws(body.awards) THEN "thrown"
                                   ELSE IF image.kind = "string" THEN "write" ELSE "old",
           id |-> id, requester |-> id, row |-> NoProfile, found |-> FALSE,
           info |-> EmptyInfo, fault |-> FALSE, ignored |-> FALSE,
           body |-> [body EXCEPT !.awards = IF @.set /\ ~Throws(@)
                                            THEN Json(SortAwards(@.val)) ELSE @],
           upload |-> IF image.kind = "buffer" THEN image.originalname ELSE "",
           image |-> "", setImage |-> FALSE, newImage |-> "", res |-> NoRes]]
    /\ UNCHANGED <<auth, user, student, profile, s3, now, newest, used>>

\* the rejected promise of the async handler: the handler has no catch for it; the
\* router either hands it to the default error handler, which answers 500, or does
\* not look at the returned promise, and then nothing ever answers the request
UpdateThrown(p) ==
    /\ proc[p].op = "update" /\ proc[p].pc = "thrown"
    /\ \/ proc' = [proc EXCEPT ![p].pc = "done", ![p].res = Res(500, "Internal Server Error")]
       \/ proc' = [proc EXCEPT ![p].pc = "dropped"]
    /\ UNCHANGED <<auth, user, student, profile, s3, now, newest, used>>

AfterOld(pr) == [pr EXCEPT !.pc = IF pr.upload # "" THEN "upload" ELSE "write"]

\* the first try block: whatever it throws is dropped by the empty catch
UpdateOld(p) ==
    /\ proc[p].op = "update" /\ proc[p].pc = "old"
    /\ LET m == {r.image : r \in {x \in Rows(profile) : x.user_id = proc[p].id}}
       IN \/ proc' = [proc EXCEPT ![p] = AfterOld([proc[p] EXCEPT !.ignored = TRUE])]
          \/ /\ m = {}
             /\ proc' = [proc EXCEPT ![p] = AfterOld(proc[p])]
          \/ \E old \in m :                                    \* .first()
                proc' = [proc EXCEPT ![p] =
                    IF old # "" THEN [proc[p] EXCEPT !.pc = "delete", !.image = old]
                    ELSE AfterOld([proc[p] EXCEPT !.setImage = TRUE, !.newImage = ""])]
    /\ UNCHANGED <<auth, user, student, profile, s3, now, newest, used>>

\* await s3Controller.deleteObject(oldInfo.image)
UpdateDelete(p) ==
    /\ proc[p].op = "update" /\ proc[p].pc = "delete"
    /\ \/ /\ proc' = [proc EXCEPT ![p] = AfterOld([proc[p] EXCEPT !.ignored = TRUE])]
          /\ UNCHANGED s3
       \/ /\ s3' = s3 \ {proc[p].image}
          /\ proc' = [proc EXCEPT ![p] =
                 AfterOld([proc[p] EXCEPT !.setImage = TRUE, !.newImage = ""])]
    /\ UNCHANGED <<auth, user, student, profile, now, newest, used>>

\* sharp(...).toBuffer() and s3Controller.uploadFile
UpdateUpload(p) ==
    /\ proc[p].op = "update" /\ proc[p].pc = "upload"
    /\ \/ /\ proc' = [proc EXCEPT ![p].pc = "done", ![p].fault = TRUE,
                                  ![p].res = Res(500, "image upload failed")]
          /\ UNCHANGED s3
       \/ LET key == UploadKey(proc[p].id, proc[p].upload)
          IN /\ s3' = s3 \cup {key}
             /\ proc' = [proc EXCEPT ![p].pc = "write", ![p].setImage = TRUE,
                                     ![p].newImage = key]
    /\ UNCHANGED <<auth, user, student, profile, now, newest, used>>

\* knex('user_profile').where({ user_id: id }).update(profileUpdateBody)
UpdateProfileRows(P, pr) ==
    UpdateWhere(P, LAMBDA r : r.user_id = pr.id,
                   LAMBDA r : [r EXCEPT !.positions = pr.body.positions,
                                        !.technologies = pr.body.technologies,
                                        !.introduction = pr.body.introduction,
                                        !.awards = pr.body.awards,
                                        !.links = pr.body.links,
                                        !.image = IF pr.setImage THEN pr.newImage ELSE @])

UpdateWrite(p) ==
    /\ proc[p].op = "update" /\ proc[p].pc = "write"
    /\ \/ /\ proc' = [proc EXCEPT ![p].pc = "done", ![p].fault = TRUE,
                                  ![p].res = Res(500, "server request fail")]
          /\ UNCHANGED profile
       \/ /\ profile' = UpdateProfileRows(profile, proc[p])
          /\ proc' = [proc EXCEPT ![p].pc = "profile"]
    /\ UNCHANGED <<auth, user, student, s3, now, newest, used>>

\* PATCH /open
OpenStart(p, id, willOpenInformation) ==
    /\ proc[p].op = "idle"
    /\ proc' = [proc EXCEPT ![p] =
          [op |-> "open", pc |-> "write", id |-> id, will |-> willOpenInformation,
           fault |-> FALSE, res |-> NoRes]]
    /\ UNCHANGED <<auth, user, student, profile, s3, now, newest, used>>

OpenWrite(p) ==
    /\ proc[p].op = "open" /\ proc[p].pc = "write"
    /\ \/ /\ proc' = [proc EXCEPT ![p].pc = "done", ![p].fault = TRUE,
                                  ![p].res = Res(500, "server request fail")]
          /\ UNCHANGED profile
       \/ /\ profile' = UpdateWhere(profile, LAMBDA r : r.user_id = proc[p].id,
                           LAMBDA r : [r EXCEPT !.is_open_information = proc[p].will])
          /\ proc' = [proc EXCEPT ![p].pc = "done",
                                  ![p].res = Ok200([isOpen |-> proc[p].will])]
    /\ UNCHANGED <<auth, user, student, s3, now, newest, used>>

----------------------------------------------------------------------------
(* Environment *)

\* the response has been sent and every call of the request has settled
Finish(p) ==
    /\ proc[p].op # "idle" /\ proc[p].pc = "done"
    /\ proc' = [proc EXCEPT ![p] = Idle]
    /\ UNCHANGED <<auth, user, student, profile, s3, now, newest, used>>

Tick ==
    /\ \E t \in Instants : t > now /\ now' = t
    /\ UNCHANGED <<auth, user, student, profile, s3, proc, newest, used>>

----------------------------------------------------------------------------
(* Specifications *)

NoNewest == [code |-> "", by |-> 0, ok |-> FALSE, n |-> 0]

Init ==
    /\ auth = EmptyBag
    /\ user = EmptyBag
    /\ student = {}
    /\ now = 0
    /\ proc = [p \in Procs |-> Idle]
    /\ newest = [e \in ValidEmails |-> NoNewest]
    /\ used = {}
    /\ profile = EmptyBag
    /\ s3 = {}

AuthSteps(p) ==
    \/ CodeDelete(p)
    \/ CodeSendMail(p)
    \/ CodeInsert(p)
    \/ EmailSelect(p)
    \/ EmailUpdate(p)
    \/ Finish(p)

\* the verification handlers, requests interleaved
Next ==
    \/ \E p \in Procs :
          \/ \E id \in OneEmail \cup BadIds : CodeStart(p, id, MaxAuth)
          \/ \E id \in OneEmail \cup {""}, code \in Codes \cup {""} : EmailStart(p, id, code)
          \/ AuthSteps(p)
    \/ Tick

Spec == Init /\ [][Next]_vars

\* rows an earlier run of the handlers can have left in the auth table
PriorRows == [email : ValidEmails, auth_code : Codes, date : {0}, is_auth : {0, 1}]
PriorStores == {EmptyBag} \cup {SetToBag({r}) : r \in PriorRows}
                 \cup {SetToBag({r1}) (+) SetToBag({r2}) : r1 \in PriorRows, r2 \in PriorRows}

InitSeq ==
    /\ auth \in PriorStores
    /\ user = EmptyBag
    /\ student = {}
    /\ now = 0
    /\ proc = [p \in Procs |-> Idle]
    /\ newest = [e \in ValidEmails |-> NoNewest]
    /\ used = {}
    /\ profile = EmptyBag
    /\ s3 = {}

\* /code/email requests, one after the other, on any prior table
NextSeq ==
    \/ \E p \in Procs :
          \/ Quiet /\ \E id \in ValidEmails \cup BadIds : CodeStart(p, id, MaxAuth + 1)
          \/ CodeDelete(p)
          \/ CodeSendMail(p)
          \/ CodeInsert(p)
          \/ Finish(p)
    \/ Tick

SpecSeq == InitSeq /\ [][NextSeq]_vars

(* registration inputs *)
Nicknames == {"n1", "n2"}
NoTier == [uniID |-> "", name |-> "", birthday |-> <<>>]
ShortBirthday == <<0, 0, 0, 2, 2, 9>>                \* "000229"
LeapBirthday == <<2, 0, 0, 0, 0, 2, 2, 9>>           \* "20000229"
BadBirthday == <<2, 0, 2, 3, 0, 2, 3, 0>>            \* "20230230"
Tiers == {[uniID |-> "u1", name |-> "kim", birthday |-> ShortBirthday],
          [uniID |-> "u2", name |-> "lee", birthday |-> LeapBirthday],
          [uniID |-> "u2", name |-> "lee", birthday |-> BadBirthday]}
StudentRows == {[uni_id |-> "u1", name |-> "kim", birthday |-> ShortBirthday]}
Matching == [password |-> "pw", verifyPassword |-> "pw"]
Mismatch == [password |-> "pw", verifyPassword |-> "px"]

Body(id, nickname, cred, isStudent, tier) ==
    [id |-> id, nickname |-> nickname, password |-> cred.password,
     verifyPassword |-> cred.verifyPassword, isStudent |-> isStudent,
     uniID |-> tier.uniID, name |-> tier.name, birthday |-> tier.birthday]

\* requests that pass validation of the common fields, and two that do not
PlainBodies ==
    {Body(id, nickname, Matching, FALSE, NoTier) : id \in ValidEmails, nickname \in Nicknames}
       \cup {Body("", "n1", Matching, FALSE, NoTier), Body("a@x.io", "n1", Mismatch, FALSE, NoTier)}
\* first variant without the tier: the path of the second variant, sampled once per id
Plain1Bodies == {Body(id, "n1", Matching, FALSE, NoTier) : id \in ValidEmails}
StudentBodies ==
    {Body(id, nickname, Matching, TRUE, tier) :
        id \in ValidEmails, nickname \in Nicknames, tier \in Tiers}
       \cup {Body("a@x.io", "n1", Matching, TRUE, NoTier)}

ConfirmedRow(e) == [email |-> e, auth_code |-> "c1", date |-> 0, is_auth |-> 1]

InitJoin ==
    /\ auth = SetToBag({ConfirmedRow("a@x.io")})
    /\ user = EmptyBag
    /\ student = StudentRows
    /\ now = 0
    /\ proc = [p \in Procs |-> Idle]
    /\ newest = [e \in ValidEmails |-> NoNewest]
    /\ used = {}
    /\ profile = EmptyBag
    /\ s3 = {}

\* the registration handlers of both variants, requests interleaved
NextJoin ==
    \E p \in Procs :
       \/ \E body \in PlainBodies : Join2Start(p, body)
       \/ \E body \in Plain1Bodies \cup StudentBodies : Join1Start(p, body)
       \/ JoinSelectUser(p)
       \/ JoinSelectStudent(p)
       \/ JoinSelectExisting(p)
       \/ JoinInsert(p)
       \/ Finish(p)

SpecJoin == InitJoin /\ [][NextJoin]_vars

(* login inputs *)
LoginIds == {"a@x.io", "nomail", ""}
LoginPasswords == {"pw", "px", ""}
OtherCred == [password |-> "px", verifyPassword |-> "px"]
LoginBodies ==
    {Body(id, "n1", cred, FALSE, NoTier) : id \in {"a@x.io", "nomail"}, cred \in {Matching, OtherCred}}
PresentedTokens == {generatedJwtToken(e, "refresh", "24h") : e \in ValidEmails}
LoginProfiles == {EmptyBag, SetToBag({ProfileRow("a@x.io", TRUE, "k1")}),
                  SetToBag({ProfileRow("a@x.io", TRUE, "")})}

InitLogin ==
    /\ auth = EmptyBag
    /\ user = EmptyBag
    /\ student = {}
    /\ now = 0
    /\ proc = [p \in Procs |-> Idle]
    /\ newest = [e \in ValidEmails |-> NoNewest]
    /\ used = {}
    /\ profile \in LoginProfiles
    /\ s3 = {"k1"}

\* login and token renewal, interleaved with registrations of the second variant
NextLogin ==
    \E p \in Procs :
       \/ \E body \in LoginBodies : Join2Start(p, body)
       \/ JoinSelectUser(p)
       \/ JoinInsert(p)
       \/ \E id \in LoginIds, password \in LoginPasswords : Login1Start(p, id, password)
       \/ \E id \in LoginIds, password \in LoginPasswords : Login2Start(p, id, password)
       \/ LoginSelect(p)
       \/ LoginImage(p)
       \/ \E t \in PresentedTokens : RefreshStart(p, t)
       \/ RefreshSelect(p)
       \/ Finish(p)

SpecLogin == InitLogin /\ [][NextLogin]_vars

(* profile inputs *)
AccountRow(id, nickname) == JoinRow(Body(id, nickname, Matching, FALSE, NoTier))
Text150 == [name |-> "intro", length |-> 150]
FullBody == [positions |-> Json(<<1>>), technologies |-> Json(<<1, 2>>),
             introduction |-> Text150,
             awards |-> Json(<<[name |-> "x", awardedAt |-> 2021],
                               [name |-> "y", awardedAt |-> 2020]>>),
             links |-> Json(<<"l1">>)]
\* (body, image) of the updates: clear everything, fill with a new file, fill and
\* keep the image
Updates == {<<NoBody, [kind |-> "null"]>>,
            <<FullBody, [kind |-> "buffer", originalname |-> "f1"]>>,
            <<FullBody, [kind |-> "string"]>>}
\* (requester, target) of the fetches: anonymous, another account, the owner, no
\* target, a target without profile
Fetches == {<<"", "a@x.io">>, <<"b@x.io", "a@x.io">>, <<"a@x.io", "a@x.io">>,
            <<"", "">>, <<"", "b@x.io">>}

InitProfile ==
    /\ auth = EmptyBag
    /\ user = SetToBag({AccountRow("a@x.io", "n1"), AccountRow("b@x.io", "n2")})
    /\ student = {}
    /\ now = 0
    /\ proc = [p \in Procs |-> Idle]
    /\ newest = [e \in ValidEmails |-> NoNewest]
    /\ used = {}
    /\ profile = SetToBag({ProfileRow("a@x.io", FALSE, "k1")})
    /\ s3 = {"k1"}

\* the profile handlers, requests interleaved; a@x.io owns the only profile
NextProfile ==
    \E p \in Procs :
       \/ \E f \in Fetches : FetchStart(p, f[1], f[2])
       \/ \E u \in Updates : UpdateStart(p, "a@x.io", u[1], u[2])
       \/ \E will \in BOOLEAN : OpenStart(p, "a@x.io", will)
       \/ ProfileSelect(p)
       \/ ProfilePositions(p)
       \/ ProfileTechnologies(p)
       \/ ProfileImage(p)
       \/ UpdateOld(p)
       \/ UpdateDelete(p)
       \/ UpdateUpload(p)
       \/ UpdateWrite(p)
       \/ OpenWrite(p)
       \/ Finish(p)

SpecProfile == InitProfile /\ [][NextProfile]_vars

(* score inputs: the size of each optional field, -1 when the field is absent *)
IntroLengths == {0, 1, 99, 100, 150, 199, 200, 299, 300, 350}
MaxItems == 3
ScoreSizes == [introduction : IntroLengths, technologies : -1..5, positions : -1..2,
               awards : -1..MaxItems, links : -1..MaxItems]

\* an optionalInfo with fields of the given sizes
OptionalInfoOf(sizes) ==
    (IF sizes.introduction > 0
     THEN "introduction" :> [name |-> "intro", length |-> sizes.introduction] ELSE EmptyInfo)
    @@ (IF sizes.technologies >= 0
        THEN "technologies" :> {t \in Technology : t.id <= sizes.technologies} ELSE EmptyInfo)
    @@ (IF sizes.positions >= 0
        THEN "positions" :> {j \in JobCategory : j.id <= sizes.positions} ELSE EmptyInfo)
    @@ (IF sizes.awards >= 0
        THEN "awards" :> [i \in 1..sizes.awards |-> [name |-> "x", awardedAt |-> 2020 + i]]
        ELSE EmptyInfo)
    @@ (IF sizes.links >= 0 THEN "links" :> [i \in 1..sizes.links |-> "l1"] ELSE EmptyInfo)

ScoreStart(p, sizes) ==
    /\ proc[p].op = "idle"
    /\ proc' = [proc EXCEPT ![p] = [op |-> "score", pc |-> "apply", sizes |-> sizes,
                                    info |-> OptionalInfoOf(sizes), profileScore |-> -1,
                                    res |-> NoRes]]
    /\ UNCHANGED <<auth, user, student, profile, s3, now, newest, used>>

ScoreApply(p) ==
    /\ proc[p].op = "score" /\ proc[p].pc = "apply"
    /\ proc' = [proc EXCEPT ![p].pc = "done",
                            ![p].profileScore = calculateProfileScore(proc[p].info)]
    /\ UNCHANGED <<auth, user, student, profile, s3, now, newest, used>>

\* calculateProfileScore applied to every combination of field sizes, one at a time
NextScore ==
    \E p \in Procs :
       \/ Quiet /\ \E sizes \in ScoreSizes : ScoreStart(p, sizes)
       \/ ScoreApply(p)
       \/ Finish(p)

SpecScore == Init /\ [][NextScore]_vars

(* birthday inputs: strings of digits around every threshold of the validator *)
BirthYears == {1899, 1900, 1904, 2000, 2020, 2023, 2024, 2100}
BirthMonths == 0..13
BirthDays == 0..32

\* the decimal digits of n, zero-padded to width w
RECURSIVE Digits(_, _)
Digits(n, w) == IF w = 0 THEN <<>> ELSE Append(Digits(n \div 10, w - 1), n % 10)

OtherLengths == {<<>>, ShortBirthday, <<2, 0, 0, 0, 0, 2, 2>>, LeapBirthday \o <<0>>}

BirthdayInputs ==
    {[birthday |-> Digits(y, 4) \o Digits(m, 2) \o Digits(d, 2),
      year |-> y, month |-> m, day |-> d] : y \in BirthYears, m \in BirthMonths, d \in BirthDays}
    \cup {[birthday |-> b, year |-> 0, month |-> 0, day |-> 0] : b \in OtherLengths}

BirthdayStart(p, in) ==
    /\ proc[p].op = "idle"
    /\ proc' = [proc EXCEPT ![p] = [op |-> "birthday", pc |-> "apply", in |-> in,
                                    valid |-> FALSE, res |-> NoRes]]
    /\ UNCHANGED <<auth, user, student, profile, s3, now, newest, used>>

BirthdayApply(p) ==
    /\ proc[p].op = "birthday" /\ proc[p].pc = "apply"
    /\ proc' = [proc EXCEPT ![p].pc = "done",
                            ![p].valid = isVaildBirthday(proc[p].in.birthday)]
    /\ UNCHANGED <<auth, user, student, profile, s3, now, newest, used>>

\* isVaildBirthday applied to every input, one at a time
NextBirthday ==
    \E p \in Procs :
       \/ Quiet /\ \E in \in BirthdayInputs : BirthdayStart(p, in)
       \/ BirthdayApply(p)
       \/ Finish(p)

SpecBirthday == Init /\ [][NextBirthday]_vars

(* inputs of the specification of all flows *)
FlowBodies == {Body("a@x.io", "n1", Matching, FALSE, NoTier),
               Body("b@x.io", "n1", Matching, FALSE, NoTier),
               Body("a@x.io", "n1", Mismatch, FALSE, NoTier),
               Body("", "n1", Matching, FALSE, NoTier)}
FlowStudentBodies ==
    {Body("a@x.io", "n2", Matching, TRUE, [uniID |-> "u1", name |-> "kim", birthday |-> ShortBirthday]),
     Body("b@x.io", "n2", Matching, TRUE, [uniID |-> "u2", name |-> "lee", birthday |-> BadBirthday]),
     Body("b@x.io", "n2", Matching, TRUE, [uniID |-> "u2", name |-> "lee", birthday |-> LeapBirthday])}
FlowLogins == {<<"a@x.io", "pw">>, <<"a@x.io", "px">>, <<"", "pw">>, <<"nomail", "pw">>}

InitFlows ==
    /\ auth = EmptyBag
    /\ user = EmptyBag
    /\ student = StudentRows
    /\ now = 0
    /\ proc = [p \in Procs |-> Idle]
    /\ newest = [e \in ValidEmails |-> NoNewest]
    /\ used = {}
    /\ profile = SetToBag({ProfileRow("a@x.io", FALSE, "k1")})
    /\ s3 = {"k1"}

\* a request of any flow starts when no request is in flight
StartFlow(p) ==
    \/ \E id \in OneEmail \cup BadIds : CodeStart(p, id, MaxAuth)
    \/ \E id \in OneEmail \cup {""}, code \in Codes \cup {""} : EmailStart(p, id, code)
    \/ \E body \in FlowBodies : Join2Start(p, body)
    \/ \E body \in FlowStudentBodies : Join1Start(p, body)
    \/ \E l \in FlowLogins : Login1Start(p, l[1], l[2])
    \/ \E l \in FlowLogins : Login2Start(p, l[1], l[2])
    \/ \E t \in PresentedTokens : RefreshStart(p, t)
    \/ FetchStart(p, "", "a@x.io")
    \/ UpdateStart(p, "a@x.io", FullBody, [kind |-> "buffer", originalname |-> "f1"])

StepFlow(p) ==
    \/ CodeDelete(p) \/ CodeSendMail(p) \/ CodeInsert(p)
    \/ EmailSelect(p) \/ EmailUpdate(p)
    \/ JoinSelectUser(p) \/ JoinSelectStudent(p) \/ JoinSelectExisting(p) \/ JoinInsert(p)
    \/ LoginSelect(p) \/ LoginImage(p)
    \/ RefreshSelect(p)
    \/ ProfileSelect(p) \/ ProfilePositions(p) \/ ProfileTechnologies(p) \/ ProfileImage(p)
    \/ UpdateOld(p) \/ UpdateDelete(p) \/ UpdateUpload(p) \/ UpdateWrite(p)
    \/ Finish(p)

\* verification, registration, login, token renewal, profile update and profile
\* fetch, one request at a time
NextFlows ==
    \/ \E p \in Procs :
          \/ Quiet /\ StartFlow(p)
          \/ StepFlow(p)
    \/ Tick

SpecFlows == InitFlows /\ [][NextFlows]_vars

(* liveness: the flows of SpecFlows and a PUT / whose awards do not parse; every
   awaited call of a request in flight eventually returns or fails *)
BadBody == [FullBody EXCEPT !.awards = BadJson]

StepLive(p) == StepFlow(p) \/ UpdateThrown(p)

NextLive ==
    \/ \E p \in Procs :
          \/ Quiet /\ StartFlow(p)
          \/ Quiet /\ UpdateStart(p, "a@x.io", BadBody, [kind |-> "null"])
          \/ StepLive(p)
    \/ Tick

SpecLive == InitFlows /\ [][NextLive]_vars /\ \A p \in Procs : WF_vars(StepLive(p))

(* confirmation inputs: one still-valid unconfirmed row for (a@x.io, c1) among
   other rows *)
ConfirmStore ==
    SetToBag({[email |-> "a@x.io", auth_code |-> "c1", date |-> 0, is_auth |-> 0],
              [email |-> "a@x.io", auth_code |-> "c2", date |-> 0, is_auth |-> 1],
              [email |-> "b@x.io", auth_code |-> "c1", date |-> 0, is_auth |-> 0]})

InitConfirm ==
    /\ auth = ConfirmStore
    /\ user = EmptyBag
    /\ student = {}
    /\ now = 0
    /\ proc = [p \in Procs |-> Idle]
    /\ newest = [e \in ValidEmails |-> NoNewest]
    /\ used = {}
    /\ profile = EmptyBag
    /\ s3 = {}

\* /email requests only, interleaved
NextConfirm ==
    \/ \E p \in Procs :
          \/ \E id \in OneEmail \cup {""}, code \in Codes \cup {""} : EmailStart(p, id, code)
          \/ EmailSelect(p)
          \/ EmailUpdate(p)
          \/ Finish(p)
    \/ Tick

SpecConfirm == InitConfirm /\ [][NextConfirm]_vars

----------------------------------------------------------------------------
(* Claims *)

Unconfirmed(e) == CountWhere(auth, LAMBDA r : r.email = e /\ r.is_auth = 0)

\* C1: in every reachable state each email has at most one unconfirmed row in the
\* auth table, whatever the interleaving of /code/email and /email requests.
C1_AtMostOneUnconfirmed == \A e \in ValidEmails : Unconfirmed(e) <= 1

\* C4: when /code/email requests run one after the other, a request that ends
\* with 201 leaves exactly one unconfirmed row for its email, and that row carries
\* the code this request generated, whatever rows the table held before.
C4_SecondRequestSupersedes ==
    \A p \in Procs :
        (proc[p].op = "code" /\ proc[p].pc = "done" /\ proc[p].res.status = 201)
        => /\ Unconfirmed(proc[p].id) = 1
           /\ \A r \in Rows(auth) :
                 (r.email = proc[p].id /\ r.is_auth = 0)
                 => (r.auth_code = proc[p].authCode /\ r.date = proc[p].currentDate)

\* C4 witness: the second of two successive requests for one email has answered 201.
C4_Witness ==
    \E p \in Procs :
        /\ proc[p].op = "code" /\ proc[p].pc = "done" /\ proc[p].res.status = 201
        /\ newest[proc[p].id].n = 2
        /\ Unconfirmed(proc[p].id) = 1

\* the step in which /email's lookup returns and the handler decides
EmailDecides(p) ==
    /\ proc[p].op = "email" /\ proc[p].pc = "select"
    /\ proc'[p].pc # "select" /\ proc'[p].res # ServerError

\* seconds from a row's date to the request's currentDate
Elapsed(p, r) == proc[p].currentDate - r.date

WindowSeconds == 300

\* C3: when /email's lookup returns, the request is accepted only if an unconfirmed
\* row (id, code) is less than 5 minutes (300 s) old, InvalidCode is answered iff
\* there is no unconfirmed row (id, code), ExpiredCode only if such a row is 300 s
\* old or more; a row younger than 300 s is accepted and one of 300 s or more is
\* refused with ExpiredCode whenever the matching rows agree (always, when there
\* is one); an accepted request answers 200 unless its update fails, and 200 is
\* answered in no other way.
C3_ConfirmWindow ==
    [][\A p \in Procs :
         /\ EmailDecides(p) =>
              LET m == {r \in Rows(auth) : r.email = proc[p].id
                                           /\ r.auth_code = proc[p].code /\ r.is_auth = 0}
                  young == {r \in m : Elapsed(p, r) < WindowSeconds}
              IN /\ proc'[p].pc = "update" => young # {}
                 /\ proc'[p].res = InvalidCode <=> m = {}
                 /\ proc'[p].res = ExpiredCode => m \ young # {}
                 /\ (m # {} /\ young = m) => proc'[p].pc = "update"
                 /\ (m # {} /\ young = {}) => proc'[p].res = ExpiredCode
         /\ (proc[p].op = "email" /\ proc[p].pc = "update" /\ proc'[p].pc # "update")
              => proc'[p].res \in {Res(200, "isAuth"), ServerError}
         /\ (proc'[p].op = "email" /\ proc'[p].res.status = 200 /\ proc[p].res.status # 200)
              => proc[p].pc = "update"
      ]_vars

\* C3 witness: a request was refused with ExpiredCode for a row exactly 300 s old.
C3_Witness ==
    \E p \in Procs :
        /\ proc[p].op = "email" /\ proc[p].res = ExpiredCode
        /\ \E r \in Rows(auth) : /\ r.email = proc[p].id /\ r.auth_code = proc[p].code
                                /\ r.is_auth = 0 /\ Elapsed(p, r) = WindowSeconds

\* C5: once the latest-started /code/email for an email has ended with 201, the
\* lookup of /email accepts no other code for that email than the one that request
\* generated (an accepted request answers 200 unless its update fails).
C5_OnlyNewestCodeValid ==
    [][\A p \in Procs :
         (/\ proc[p].op = "email" /\ proc[p].pc = "select" /\ proc'[p].pc = "update"
          /\ proc[p].id \in DOMAIN newest /\ newest[proc[p].id].ok)
         => proc[p].code = newest[proc[p].id].code
      ]_vars

\* C6: once /email has answered 200 for (id, code), and until a /code/email inserts
\* a row for id again, the lookup of every /email for (id, code) finds no row: the
\* request ends with InvalidCode (or 500 when the lookup itself fails).
C6_SingleUse ==
    [][\A p \in Procs :
         (/\ proc[p].op = "email" /\ proc[p].pc = "select" /\ proc'[p].pc # "select"
          /\ <<proc[p].id, proc[p].code>> \in used)
         => proc'[p].res \in {InvalidCode, ServerError}
      ]_vars

\* C6 witness: a second /email for an already confirmed (id, code) got InvalidCode.
C6_Witness ==
    \E p \in Procs :
        /\ proc[p].op = "email" /\ proc[p].res = InvalidCode
        /\ <<proc[p].id, proc[p].code>> \in used
        /\ \E r \in Rows(auth) : r.email = proc[p].id /\ r.auth_code = proc[p].code /\ r.is_auth = 1

IsJoin(pr) == pr.op \in {"join1", "join2"}

\* C2: every account's id has a confirmed row in the auth table.
C2_AccountIdsVerified ==
    \A u \in Rows(user) : \E r \in Rows(auth) : r.email = u.id /\ r.is_auth = 1

\* C7: no two rows of the user table share an id, and no two share a nickname.
C7_UniqueIdAndNickname ==
    \A u \in Rows(user) :
        /\ user[u] = 1
        /\ \A v \in Rows(user) : u # v => (u.id # v.id /\ u.nickname # v.nickname)

\* the step in which the last lookup of /join returns and the handler decides
JoinDecides(p) ==
    /\ IsJoin(proc[p]) /\ proc[p].pc = "lookup"
    /\ proc'[p].pc # "lookup" /\ proc'[p].res # ServerError

\* C8: a non-privileged /join whose id is the id of an account when the
\* collision lookup runs answers 'duplicate id'; with a free id and a taken nickname
\* it answers 'duplicate nickname'.
C8_TakenIdIsDuplicateId ==
    [][\A p \in Procs :
         (JoinDecides(p) /\ ~proc[p].isStudent)
         => /\ (\E u \in Rows(user) : u.id = proc[p].id) => proc'[p].res = DuplicateId
            /\ ((\A u \in Rows(user) : u.id # proc[p].id)
                /\ (\E u \in Rows(user) : u.nickname = proc[p].nickname))
               => proc'[p].res = DuplicateNickname
      ]_vars

\* C8 witness: 'duplicate nickname' was answered although the requested id is taken.
C8_Witness ==
    \E p \in Procs :
        /\ IsJoin(proc[p]) /\ proc[p].res = DuplicateNickname
        /\ \E u \in Rows(user) : u.id = proc[p].id

\* C9: a privileged /join with every field present and matching passwords, for which
\* no student row matches, and whose id, nickname and external identity are all
\* free, answers 403 whenever its store calls succeed.
C9_NoStudentRowForbidden ==
    \A p \in Procs :
        (/\ proc[p].op = "join1" /\ proc[p].pc = "done" /\ proc[p].isStudent
         /\ checkObjectValueEmpty(<<proc[p].id, proc[p].nickname, proc[p].password,
                                    proc[p].verifyPassword, proc[p].uniID, proc[p].name>>)
         /\ proc[p].birthday # <<>>
         /\ proc[p].password = proc[p].verifyPassword
         /\ ~StudentFound(proc[p])
         /\ ~ExistingFound(user, proc[p])
         /\ \A u \in Rows(user) : u.id # proc[p].id /\ u.nickname # proc[p].nickname
         /\ proc[p].res # ServerError)
        => proc[p].res = Forbidden

\* C10: when the lookups of /join have returned, the outcome is the first that
\* applies of: privileged and an account bound to the identity -> 'account already
\* exists'; a returned row with the requested id -> 'duplicate id'; a returned row
\* with the requested nickname -> 'duplicate nickname'; privileged and no student
\* row -> 403; otherwise the insert is issued.  The user table changes only by that
\* insert, which adds the row with the sha256 digest and the tier flag.
C10_DecisionOrder ==
    [][/\ \A p \in Procs :
            JoinDecides(p)
            => LET pr == proc'[p]
                   bound == pr.isStudent /\ pr.existing = "found"
                   dupId == pr.user # NoRow /\ pr.user.id = pr.id
                   dupNick == pr.user # NoRow /\ pr.user.nickname = pr.nickname
                   noRecord == pr.isStudent /\ ~StudentFound(pr)
               IN /\ pr.user # Pending /\ pr.student # "pending" /\ pr.existing # "pending"
                  /\ pr.res = (IF bound THEN AccountExists
                               ELSE IF dupId THEN DuplicateId
                               ELSE IF dupNick THEN DuplicateNickname
                               ELSE IF noRecord THEN Forbidden
                               ELSE NoRes)
                  /\ pr.pc = "insert" <=> ~(bound \/ dupId \/ dupNick \/ noRecord)
                  /\ pr.pc = "done" <=> (bound \/ dupId \/ dupNick \/ noRecord)
       /\ user' # user
          => \E q \in Procs :
                /\ IsJoin(proc[q]) /\ proc[q].pc = "insert"
                /\ user' = InsertRow(user,
                      [id |-> proc[q].id, nickname |-> proc[q].nickname,
                       password |-> <<"sha256", proc[q].password>>,
                       is_student |-> IF proc[q].isStudent THEN 1 ELSE 0,
                       uni_id |-> proc[q].uniID, name |-> proc[q].name,
                       birthday |-> proc[q].birthday])
      ]_vars

\* C10 witness: 'account already exists' was answered although the returned row also
\* has the requested id, and an account has been inserted for a privileged request.
C10_Witness ==
    /\ \E p \in Procs :
          /\ proc[p].op = "join1" /\ proc[p].res = AccountExists
          /\ proc[p].user # NoRow /\ proc[p].user.id = proc[p].id
    /\ \E u \in Rows(user) : u.is_student = 1

IsLogin(pr) == pr.op \in {"login1", "login2"}

\* C11: two /login requests of the same variant with the same id and password, one
\* whose lookup ran when no account had the id and one whose lookup ran when an
\* account had the id with another digest, get the same status and the same message,
\* that of InvalidCredentials.
C11_LoginFailureIndistinguishable ==
    \A p \in Procs, q \in Procs :
        (/\ IsLogin(proc[p]) /\ proc[q].op = proc[p].op
         /\ proc[p].pc = "done" /\ proc[q].pc = "done"
         /\ proc[p].id = proc[q].id /\ proc[p].password = proc[q].password
         /\ ~proc[p].fault /\ ~proc[q].fault
         /\ ~proc[p].idKnown
         /\ proc[q].idKnown /\ proc[q].tokens = <<>>)
        => /\ proc[p].res.status = proc[q].res.status
           /\ proc[p].res.message = proc[q].res.message
           /\ proc[p].res = InvalidCredentials

\* C11 witness: both runs are present, one refused for an unknown id and one for a
\* known id with a wrong password.
C11_Witness ==
    \E p \in Procs, q \in Procs :
        /\ proc[p].op = "login2" /\ proc[q].op = "login2"
        /\ proc[p].pc = "done" /\ proc[q].pc = "done"
        /\ proc[p].id = proc[q].id /\ proc[p].password = proc[q].password
        /\ proc[p].res = InvalidCredentials /\ ~proc[p].idKnown
        /\ proc[q].res = InvalidCredentials /\ proc[q].idKnown

\* the response of a successful login: one refresh token (24h) and one access token
\* (5m), both for the account id, and no other token
Issued(pr) ==
    /\ pr.pc = "done" /\ pr.res.status = 200
    /\ Len(pr.tokens) = 2
    /\ Cardinality({i \in 1..2 : pr.tokens[i] = [email |-> pr.id, sub |-> "access",
                                                  expiresIn |-> "5m"]}) = 1
    /\ Cardinality({i \in 1..2 : pr.tokens[i] = [email |-> pr.id, sub |-> "refresh",
                                                  expiresIn |-> "24h"]}) = 1
    /\ {pr.res.data.accessToken, pr.res.data.refreshToken} = {pr.tokens[1], pr.tokens[2]}
    /\ pr.res.data.accessToken.sub = "access"
    /\ pr.res.data.refreshToken.sub = "refresh"

\* C12: a /login (second variant) whose store and storage calls succeed answers with
\* the token pair iff, when its lookup runs, an account has the id and the digest of
\* the password; then exactly one access token (5m) and one refresh token (24h) are
\* issued, both for that id; a refused or failed request issues no token.
C12_LoginIssuesTokenPair ==
    [][\A p \in Procs :
         LET pr == proc[p]
             nx == proc'[p]
             has == \E u \in Rows(user) :
                       u.id = nx.id /\ u.password = <<"sha256", nx.password>>
         IN /\ (pr.op = "idle" /\ nx.op = "login2" /\ nx.pc = "done")
               => (~has /\ nx.tokens = <<>> /\ nx.res.status = 400)
            /\ (pr.op = "login2" /\ pr.pc = "lookup" /\ nx.pc # "lookup" /\ ~nx.fault)
               => IF has THEN nx.pc = "image" \/ Issued(nx)
                  ELSE nx.res = InvalidCredentials /\ nx.tokens = <<>>
            /\ (pr.op = "login2" /\ pr.pc = "image" /\ nx.pc # "image" /\ ~nx.fault)
               => Issued(nx)
            /\ (nx.op = "login2" /\ nx.fault) => (nx.tokens = <<>> /\ nx.res.status = 500)
            /\ nx.op = "login2" => (nx.tokens # <<>> <=> nx.res.status = 200)
      ]_vars

\* C12 witness: a login has answered 200 with its token pair after the image lookup.
C12_Witness ==
    \E p \in Procs :
        /\ proc[p].op = "login2" /\ Issued(proc[p])
        /\ "profileImage" \in DOMAIN proc[p].res.data
        /\ proc[p].res.data.profileImage = <<"url", "k1">>

\* C13: when the lookup of /refreshToken returns, an account with the subject's id
\* makes the request mint exactly one token, an access token (5m) for that subject,
\* returned with 200; no refresh token is minted or returned and the presented token
\* is unchanged; with no such account the request answers 404 and mints nothing.
C13_RefreshMintsOneAccessToken ==
    [][\A p \in Procs :
         LET pr == proc[p]
             nx == proc'[p]
             exists == \E u \in Rows(user) : u.id = pr.email
         IN (pr.op = "refresh" /\ pr.pc = "lookup" /\ nx.pc # "lookup")
            => /\ nx.presented = pr.presented /\ nx.email = pr.presented.email
               /\ \A i \in DOMAIN nx.tokens : nx.tokens[i].sub # "refresh"
               /\ nx.fault => nx.tokens = <<>>
               /\ (~nx.fault /\ exists)
                  => /\ nx.tokens = <<[email |-> pr.presented.email, sub |-> "access",
                                       expiresIn |-> "5m"]>>
                     /\ nx.res.status = 200
                     /\ nx.res.data.accessToken = nx.tokens[1]
                     /\ DOMAIN nx.res.data = {"accessToken", "nickname", "email", "isAdmin"}
               /\ (~nx.fault /\ ~exists)
                  => (nx.res = AccountNotFound /\ nx.tokens = <<>>)
      ]_vars

\* C13 witness: one renewal has minted its access token while another, for a subject
\* with no account, has answered 404.
C13_Witness ==
    \E p \in Procs, q \in Procs :
        /\ proc[p].op = "refresh" /\ proc[p].res.status = 200 /\ Len(proc[p].tokens) = 1
        /\ proc[q].op = "refresh" /\ proc[q].res = AccountNotFound /\ ~proc[q].fault

\* a finished profile fetch by someone else than the target, whose lookup found the
\* profile closed
ClosedFetch(pr) ==
    /\ pr.op = "fetch" /\ pr.pc = "done" /\ pr.found /\ ~pr.fault
    /\ pr.requester # pr.id /\ ~pr.row.isOpen

\* a finished profile fetch by the target itself or of an open profile
OpenFetch(pr) ==
    /\ pr.op = "fetch" /\ pr.pc = "done" /\ pr.found /\ ~pr.fault
    /\ (pr.requester = pr.id \/ pr.row.isOpen)

\* C14: a profile fetch by another requester (anonymous included) of a closed profile
\* answers exactly {id, nickname, isOpen, isMe = false}; two such fetches of one target
\* made while its optional fields differed get identical responses.  A fetch by the
\* target itself or of an open profile answers the assembled optional fields, present
\* exactly when the column is set, together with the score.
C14_ClosedProfileWithheld ==
    /\ \A p \in Procs :
          ClosedFetch(proc[p])
          => proc[p].res = [status |-> 200, message |-> "",
                            data |-> [id |-> proc[p].id, nickname |-> proc[p].row.nickname,
                                      isOpen |-> FALSE, isMe |-> FALSE]]
    /\ \A p \in Procs, q \in Procs :
          (/\ ClosedFetch(proc[p]) /\ ClosedFetch(proc[q])
           /\ proc[p].id = proc[q].id /\ proc[p].requester = proc[q].requester
           /\ proc[p].row.nickname = proc[q].row.nickname)
          => proc[p].res = proc[q].res
    /\ \A p \in Procs :
          OpenFetch(proc[p])
          => LET row == proc[p].row
                 data == proc[p].res.data
                 info == data.profileInfo
             IN /\ proc[p].res.status = 200
                /\ DOMAIN data = {"profileInfo", "profileScore"}
                /\ info.id = proc[p].id /\ info.nickname = row.nickname
                /\ info.isOpen = row.isOpen /\ info.isMe = (proc[p].requester = proc[p].id)
                /\ Has(info, "awards") <=> row.awards.set
                /\ Has(info, "awards") => info.awards = row.awards.val
                /\ Has(info, "links") <=> row.links.set
                /\ Has(info, "links") => info.links = row.links.val
                /\ Has(info, "introduction") <=> row.introduction.length # 0
                /\ Has(info, "introduction") => info.introduction = row.introduction
                /\ Has(info, "positions") <=> row.positions.set
                /\ Has(info, "positions")
                   => info.positions = {j \in JobCategory :
                                          \E i \in DOMAIN row.positions.val :
                                             row.positions.val[i] = j.id}
                /\ Has(info, "technologies") <=> row.technologies.set
                /\ Has(info, "technologies")
                   => info.technologies = {t \in Technology :
                                             \E i \in DOMAIN row.technologies.val :
                                                row.technologies.val[i] = t.id}
                /\ Has(info, "image") <=> row.image # ""
                /\ Has(info, "image") => info.image = <<"url", row.image>>
                /\ data.profileScore \in 0..100
                /\ data.profileScore = calculateProfileScore(info)

\* C14 witness: two fetches of one closed profile, by one requester, made while the
\* optional fields of the profile differed.
C14_Witness ==
    \E p \in Procs, q \in Procs :
        /\ ClosedFetch(proc[p]) /\ ClosedFetch(proc[q])
        /\ proc[p].id = proc[q].id /\ proc[p].requester = proc[q].requester
        /\ proc[p].row.introduction # proc[q].row.introduction
        /\ proc[p].row.image # proc[q].row.image
        /\ proc[p].res = proc[q].res

\* the raw score as the specification tabulates it
ExpectedRaw(sizes) ==
    (IF sizes.introduction >= 300 THEN 4 ELSE IF sizes.introduction >= 200 THEN 2
     ELSE IF sizes.introduction >= 100 THEN 1 ELSE 0)
    + (IF sizes.technologies >= 5 THEN 4 ELSE IF sizes.technologies >= 2 THEN 2
       ELSE IF sizes.technologies >= 1 THEN 1 ELSE 0)
    + (IF sizes.positions >= 1 THEN 1 ELSE 0)
    + (IF sizes.awards >= 2 THEN 2 ELSE IF sizes.awards = 1 THEN 1 ELSE 0)
    + (IF sizes.links >= 2 THEN 2 ELSE IF sizes.links = 1 THEN 1 ELSE 0)

\* the integer nearest to raw / 13 * 100
Nearest(raw) ==
    CHOOSE n \in 0..100 : -13 < 2 * (13 * n - 100 * raw) /\ 2 * (13 * n - 100 * raw) <= 13

EmptySizes == [introduction |-> 0, technologies |-> -1, positions |-> -1,
               awards |-> -1, links |-> -1]

\* C15: for every combination of field sizes the score is the integer in 0..100
\* nearest to raw / 13 * 100, raw being the sum of the five sub-scores of the
\* thresholds; the empty profile scores 0, a 150-character introduction alone scores
\* 8, and the fully populated profile scores 100.
C15_ScoreFormula ==
    \A p \in Procs :
        (proc[p].op = "score" /\ proc[p].pc = "done")
        => LET sizes == proc[p].sizes
               score == proc[p].profileScore
           IN /\ score \in 0..100
              /\ ExpectedRaw(sizes) \in 0..13
              /\ score = Nearest(ExpectedRaw(sizes))
              /\ sizes = EmptySizes => score = 0
              /\ sizes = [EmptySizes EXCEPT !.introduction = 150] => score = 8
              /\ sizes = [introduction |-> 350, technologies |-> 5, positions |-> 1,
                          awards |-> 2, links |-> 2] => score = 100

\* C15 witness: the 150-character introduction alone has been scored 8.
C15_Witness ==
    \E p \in Procs :
        /\ proc[p].op = "score" /\ proc[p].pc = "done"
        /\ proc[p].sizes = [EmptySizes EXCEPT !.introduction = 150]
        /\ proc[p].profileScore = 8

\* the requests of /code/email, /email, /login and /join
FrameOps == {"code", "email", "login1", "login2", "join1", "join2"}

\* the validation errors and the business-rule errors
ErrorResponses ==
    {Res(400, "invalid request"), Res(403, "invalid id format"), Res(400, "password mismatch"),
     Res(400, "invalid birthday"), InvalidCode, ExpiredCode, InvalidCredentials,
     AccountExists, DuplicateId, DuplicateNickname, Forbidden}

\* C16: a request of /code/email, /email, /login or /join that answers a validation
\* or business-rule error has only taken its start step and read steps (pc idle,
\* select, lookup), none of which changes the auth table or the user table, answers
\* in a step that changes neither, has dispatched no mail and attempted no insert,
\* and takes no step afterwards.
C16_ErrorsChangeNothing ==
    [][\A p \in Procs :
         LET pr == proc[p]
             nx == proc'[p]
         IN /\ (nx # pr /\ nx.op \in FrameOps /\ pr.pc \in {"idle", "select", "lookup"})
               => (auth' = auth /\ user' = user)
            /\ (nx # pr /\ nx.op \in FrameOps /\ nx.pc \in {"select", "lookup"})
               => pr.pc \in {"idle", "lookup"}
            /\ (nx.op \in FrameOps /\ nx.res \in ErrorResponses /\ pr.res # nx.res)
               => /\ pr.pc \in {"idle", "select", "lookup"}
                  /\ nx.pc = "done"
                  /\ auth' = auth /\ user' = user
                  /\ nx.op = "code" => (nx.mail = "none" /\ nx.ins = "none")
            /\ (pr.op \in FrameOps /\ pr.res \in ErrorResponses /\ nx # pr)
               => (nx = Idle /\ auth' = auth /\ user' = user)
      ]_vars

\* C16 witness: /email has answered ExpiredCode and the expired row is still there,
\* unconfirmed.
C16_Witness ==
    \E p \in Procs :
        /\ proc[p].op = "email" /\ proc[p].res = ExpiredCode
        /\ \E r \in Rows(auth) : /\ r.email = proc[p].id /\ r.auth_code = proc[p].code
                                /\ r.is_auth = 0
        /\ user # EmptyBag

\* C17: in every flow a failed store, mail or object-storage call ends the request
\* with status 500: a request one of whose collaborator calls failed holds a 500
\* response, and no request carries on after a failure it swallowed.
C17_FailureEndsUnexpected ==
    \A p \in Procs :
        LET pr == proc[p]
        IN /\ ("fault" \in DOMAIN pr /\ pr.fault) => pr.res.status = 500
           /\ "ignored" \in DOMAIN pr => ~pr.ignored
           /\ (pr.op = "code" /\ pr.pc = "done" /\ (pr.mail = "fail" \/ pr.ins = "fail"))
              => pr.res.status = 500

\* C17 witness: the store lookup of /refreshToken failed and the request is answered.
C17_Witness ==
    \E p \in Procs : proc[p].op = "refresh" /\ proc[p].pc = "done" /\ proc[p].fault

Copies(B, r) == CountWhere(B, LAMBDA x : x = r)

\* the row a /code/email request inserts
CodeRow(pr) == [email |-> pr.id, auth_code |-> pr.authCode, date |-> pr.currentDate, is_auth |-> 0]

\* C18: /code/email answers 201 only when both the insert and the mail have
\* succeeded; as soon as either has failed its answer is the 500; and no step of the
\* request undoes the one that succeeded: a sent mail stays sent, the insert adds one
\* copy of the row and no later step of the request removes a row.
C18_BothOrServerError ==
    [][\A p \in Procs :
         LET pr == proc[p]
             nx == proc'[p]
         IN (nx.op = "code" /\ nx # pr) =>
              /\ nx.res.status = 201 => (nx.mail = "ok" /\ nx.ins = "ok")
              /\ (nx.mail = "fail" \/ nx.ins = "fail") => nx.res = ServerError
              /\ (nx.mail = "ok" /\ nx.ins = "ok") => nx.res = Res(201, "isSend")
              /\ pr.pc = "all" =>
                   /\ pr.mail = "ok" => nx.mail = "ok"
                   /\ pr.ins = "ok" => (nx.ins = "ok" /\ auth' = auth)
                   /\ (pr.ins = "pending" /\ nx.ins = "ok")
                      => auth' = InsertRow(auth, CodeRow(pr))
                   /\ (pr.ins = "pending" /\ nx.ins # "ok") => auth' = auth
      ]_vars

\* C18 witness: the mail failed, the answer is the 500 and the inserted row is in
\* the table.
C18_Witness ==
    \E p \in Procs :
        /\ proc[p].op = "code" /\ proc[p].pc = "done"
        /\ proc[p].mail = "fail" /\ proc[p].ins = "ok" /\ proc[p].res = ServerError
        /\ Copies(auth, CodeRow(proc[p])) >= 1

\* C19: at the step in which /email answers 200 for (id, code), the auth table
\* holds a confirmed row for (id, code), whatever /code/email requests ran between
\* the lookup and the update.
C19_SuccessMeansConfirmed ==
    [][\A p \in Procs :
         (proc'[p].op = "email" /\ proc'[p].res.status = 200 /\ proc[p].res.status # 200)
         => \E r \in Rows(auth') : /\ r.email = proc'[p].id
                                   /\ r.auth_code = proc'[p].code
                                   /\ r.is_auth = 1
      ]_vars

\* C19 witness: /email has answered 200 for (id, code) and the auth table holds no
\* row for (id, code), while it holds a row for id that a later /code/email inserted.
C19_Witness ==
    \E p \in Procs :
        /\ proc[p].op = "email" /\ proc[p].res.status = 200
        /\ \A r \in Rows(auth) : ~(r.email = proc[p].id /\ r.auth_code = proc[p].code)
        /\ \E r \in Rows(auth) : r.email = proc[p].id /\ r.is_auth = 0

\* the table after a single successful /email for (a@x.io, c1) answered at time t
SingleConfirm(t) == EmailUpdateRows(ConfirmStore, "a@x.io", "c1", getCurrentDate(t))

\* C20: whatever the interleaving of the lookups and updates of concurrent /email
\* requests for (a@x.io, c1), the auth table is the initial one or the one a single
\* successful /email leaves; once a request has answered 200 it holds exactly one
\* row for (a@x.io, c1), confirmed, and the other rows as they were.
C20_ConcurrentConfirmIdempotent ==
    /\ auth \in {ConfirmStore} \cup {SingleConfirm(t) : t \in Instants}
    /\ (\E p \in Procs : proc[p].op = "email" /\ proc[p].res.status = 200)
       => /\ auth # ConfirmStore
          /\ CountWhere(auth, LAMBDA r : r.email = "a@x.io" /\ r.auth_code = "c1") = 1
          /\ CountWhere(auth, LAMBDA r : r.email = "a@x.io" /\ r.auth_code = "c1"
                                         /\ r.is_auth = 1) = 1
          /\ BagCardinality(auth) = BagCardinality(ConfirmStore)

\* C20 witness: two /email requests for (a@x.io, c1) have both answered 200.
C20_Witness ==
    \A p \in Procs : /\ proc[p].op = "email" /\ proc[p].pc = "done"
                     /\ proc[p].id = "a@x.io" /\ proc[p].code = "c1"
                     /\ proc[p].res.status = 200

\* C21: a confirmed row of the auth table is inert: no step removes or modifies a
\* copy of it; and the step in which /email answers 200 for (id, code) changes
\* unconfirmed rows of (id, code) only, every other row keeping its copies.
C21_ConfirmedInert ==
    [][/\ \A r \in Rows(auth) : r.is_auth = 1 => Copies(auth', r) >= Copies(auth, r)
       /\ \A p \in Procs :
            (proc'[p].op = "email" /\ proc'[p].res.status = 200 /\ proc[p].res.status # 200)
            => \A r \in Rows(auth) :
                 ~(r.email = proc[p].id /\ r.auth_code = proc[p].code /\ r.is_auth = 0)
                 => Copies(auth', r) >= Copies(auth, r)
      ]_vars

\* C21 witness: the auth table holds a confirmed and an unconfirmed row with the same
\* email and code, and a /email request for them is about to run its update with a
\* current date other than the confirmed row's.
C21_Witness ==
    \E p \in Procs :
        /\ proc[p].op = "email" /\ proc[p].pc = "update"
        /\ \E r \in Rows(auth) : /\ r.email = proc[p].id /\ r.auth_code = proc[p].code
                                /\ r.is_auth = 1 /\ r.date # proc[p].currentDate
        /\ \E r \in Rows(auth) : /\ r.email = proc[p].id /\ r.auth_code = proc[p].code
                                /\ r.is_auth = 0

\* the calendar of the claim
LeapYear(y) == y % 4 = 0 /\ (y % 100 # 0 \/ y % 400 = 0)

DaysIn(y, m) == IF m \in {4, 6, 9, 11} THEN 30
                ELSE IF m = 2 THEN (IF LeapYear(y) THEN 29 ELSE 28)
                ELSE 31

ExpectedValid(in) ==
    /\ Len(in.birthday) = 8
    /\ 1900 <= in.year /\ in.year <= YearNow
    /\ 1 <= in.month /\ in.month <= 12
    /\ 1 <= in.day /\ in.day <= DaysIn(in.year, in.month)

\* C22: isVaildBirthday accepts a string of 8 digits YYYYMMDD exactly when
\* 1900 <= YYYY <= the current year, 1 <= MM <= 12 and DD is a day of that month in
\* that year (29 February in leap years only), and rejects every string of digits of
\* another length.
C22_BirthdayValidator ==
    \A p \in Procs :
        (proc[p].op = "birthday" /\ proc[p].pc = "done")
        => (proc[p].valid <=> ExpectedValid(proc[p].in))

\* C22 witness: the validator has accepted "20000229".
C22_Witness ==
    \E p \in Procs :
        /\ proc[p].op = "birthday" /\ proc[p].pc = "done"
        /\ proc[p].in.birthday = LeapBirthday /\ proc[p].valid

\* C23: every request eventually holds a response, and the response it holds is never
\* replaced by another one.
C23_EveryRequestAnswered ==
    /\ \A p \in Procs : (proc[p].op # "idle") ~> (proc[p].res # NoRes)
    /\ [][\A p \in Procs : proc[p].res # NoRes
                           => (proc'[p].res = proc[p].res \/ proc'[p] = Idle)]_vars

\* C23 witness: a PUT / request whose awards did not parse is left without a response
\* and without a step to take.
C23_Witness ==
    \E p \in Procs : /\ proc[p].op = "update" /\ proc[p].pc = "dropped"
                     /\ proc[p].res = NoRes
                     /\ ~ENABLED StepLive(p)

\* every request other than one dropped after a throw outside the try blocks is
\* answered, once
AnsweredUnlessDropped ==
    /\ \A p \in Procs : (proc[p].op # "idle") ~> (proc[p].res # NoRes \/ proc[p].pc = "dropped")
    /\ [][\A p \in Procs : proc[p].res # NoRes
                           => (proc'[p].res = proc[p].res \/ proc'[p] = Idle)]_vars

====
